---------------------------- MODULE Spec2Model ----------------------------
(***************************************************************************)
(* Model of scripts/fetch_matches.py: the fotball.no fixture fetcher that  *)
(* parses the match table of a page into Match records, writes             *)
(* data/matches.json and generates the ICS calendars.                      *)
(*                                                                         *)
(* Text is modelled as a sequence of one-character strings, so that the    *)
(* regular expressions, the ISO-8601 formatting and the string ordering    *)
(* used by the sort are computed rather than assumed.                      *)
(***************************************************************************)
EXTENDS Integers, Sequences, FiniteSets, TLC

(***************************************************************************)
(* Text helpers                                                            *)
(***************************************************************************)
Digits == <<"0", "1", "2", "3", "4", "5", "6", "7", "8", "9">>

DigitSet == {Digits[i] : i \in 1..10}

IsDigit(c) == c \in DigitSet

\* int() of one decimal digit
DigitVal(c) == (CHOOSE i \in 1..10 : Digits[i] = c) - 1

\* int() of a run of decimal digits
RECURSIVE ToInt(_)
ToInt(s) ==
    IF s = <<>> THEN 0
    ELSE 10 * ToInt(SubSeq(s, 1, Len(s) - 1)) + DigitVal(s[Len(s)])

\* n rendered in decimal, zero-padded to w characters (strftime %Y %m %d ..., isoformat)
RECURSIVE Pad(_, _)
Pad(n, w) ==
    IF w = 0 THEN <<>> ELSE Append(Pad(n \div 10, w - 1), Digits[(n % 10) + 1])

\* Code-point order of the characters that occur in a kickoff string
CharCode(c) ==
    CASE c = "-" -> 45
      [] c = ":" -> 58
      [] c = "T" -> 84
      [] c = "Z" -> 90
      [] OTHER   -> 48 + DigitVal(c)

\* Python's str < str: lexicographic by code point, a proper prefix is smaller
RECURSIVE StrLess(_, _)
StrLess(s, t) ==
    IF t = <<>> THEN FALSE
    ELSE IF s = <<>> THEN TRUE
    ELSE IF s[1] = t[1] THEN StrLess(Tail(s), Tail(t))
    ELSE CharCode(s[1]) < CharCode(t[1])

StrLeq(s, t) == s = t \/ StrLess(s, t)

\* re.sub(r"\s+", " ", s.strip())
RECURSIVE Collapse(_)
Collapse(s) ==
    IF s = <<>> THEN <<>>
    ELSE IF s[1] = " " /\ (Len(s) = 1 \/ s[2] = " ") THEN Collapse(Tail(s))
    ELSE <<s[1]>> \o Collapse(Tail(s))

RECURSIVE LStrip(_)
LStrip(s) == IF s # <<>> /\ s[1] = " " THEN LStrip(Tail(s)) ELSE s

normalize_space(s) == Collapse(LStrip(s))

\* str.replace for a single character
ReplaceChar(s, from, to) == [i \in 1..Len(s) |-> IF s[i] = from THEN to ELSE s[i]]

AllDigits(s) == \A i \in 1..Len(s) : IsDigit(s[i])

(***************************************************************************)
(* Optional[int]: None is the empty sequence, a value v is <<v>>           *)
(***************************************************************************)
None == <<>>

Some(v) == <<v>>

\* Python's `x or 0` for an Optional[int]
OrZero(x) == IF x = None THEN 0 ELSE x[1]

(***************************************************************************)
(* parse_time_cell: (hour, minute, is_unknown)                             *)
(***************************************************************************)
\* re.match(r"^(\d{1,2}):(\d{2})$", raw)
TimeMatches(s) ==
    /\ Len(s) \in {4, 5}
    /\ s[Len(s) - 2] = ":"
    /\ AllDigits(SubSeq(s, 1, Len(s) - 3))
    /\ AllDigits(SubSeq(s, Len(s) - 1, Len(s)))

\* parse_time_cell without the placeholder rule of lines 152-153
TimeOfAsRead(hh, mm) == [hh |-> Some(hh), mm |-> Some(mm), unknown |-> FALSE]

\* Lines 149-154: 02:59 is the placeholder of an unset time
TimeOf(hh, mm) ==
    IF hh = 2 /\ mm = 59
    THEN [hh |-> Some(0), mm |-> Some(0), unknown |-> TRUE]
    ELSE [hh |-> Some(hh), mm |-> Some(mm), unknown |-> FALSE]

\* Lines 146-154 on the normalised text
ParseTimeText(s) ==
    IF ~TimeMatches(s) THEN [hh |-> None, mm |-> None, unknown |-> TRUE]
    ELSE TimeOf(ToInt(SubSeq(s, 1, Len(s) - 3)), ToInt(SubSeq(s, Len(s) - 1, Len(s))))

parse_time_cell(raw) == ParseTimeText(ReplaceChar(normalize_space(raw), ".", ":"))

(***************************************************************************)
(* Calendar arithmetic of datetime (proleptic Gregorian)                   *)
(***************************************************************************)
IsLeap(y) == (y % 4 = 0 /\ y % 100 # 0) \/ y % 400 = 0

DaysInMonth(y, m) ==
    IF m = 2 THEN (IF IsLeap(y) THEN 29 ELSE 28)
    ELSE IF m \in {4, 6, 9, 11} THEN 30 ELSE 31

\* Days from 0000-03-01 to day d of the month mp months after March of year yy
DaysFromMarch(yy, mp, d) ==
    365 * yy + yy \div 4 - yy \div 100 + yy \div 400 + (153 * mp + 2) \div 5 + d - 1

\* Days from 1970-01-01 to y-m-d
DaysFromCivil(y, m, d) ==
    DaysFromMarch(IF m <= 2 THEN y - 1 ELSE y, (m + 9) % 12, d) - 719468

\* <<y, m, d>> of day doy of the year that starts on 1 March of year y0
CivilOfMonth(y0, doy, mp) ==
    <<y0 + (IF mp >= 10 THEN 1 ELSE 0),
      IF mp < 10 THEN mp + 3 ELSE mp - 9,
      doy - (153 * mp + 2) \div 5 + 1>>

CivilOfDayOfYear(y0, doy) == CivilOfMonth(y0, doy, (5 * doy + 2) \div 153)

CivilOfYearOfEra(era, doe, yoe) ==
    CivilOfDayOfYear(yoe + era * 400, doe - (365 * yoe + yoe \div 4 - yoe \div 100))

CivilOfDayOfEra(era, doe) ==
    CivilOfYearOfEra(era, doe,
                     (doe - doe \div 1460 + doe \div 36524 - doe \div 146096) \div 365)

\* The inverse of DaysFromCivil: <<y, m, d>> of a day number
CivilFromDays(z) == CivilOfDayOfEra((z + 719468) \div 146097, (z + 719468) % 146097)

\* datetime(y, mo, d, hh, mm) raises ValueError unless every field is in range
DateTimeValid(y, mo, d, hh, mm) ==
    /\ y \in 1..9999
    /\ mo \in 1..12
    /\ d \in 1..DaysInMonth(y, mo)
    /\ hh \in 0..23
    /\ mm \in 0..59

(***************************************************************************)
(* parse_date_cell: None, a date, or the ValueError of datetime(y, mo, d)  *)
(***************************************************************************)
\* re.match(r"^(\d{2})\.(\d{2})\.(\d{4})$", raw)
DateMatches(s) ==
    /\ Len(s) = 10
    /\ s[3] = "." /\ s[6] = "."
    /\ AllDigits(SubSeq(s, 1, 2))
    /\ AllDigits(SubSeq(s, 4, 5))
    /\ AllDigits(SubSeq(s, 7, 10))

\* datetime(y, mo, d) (line 164)
DateOf(d, mo, y) ==
    IF DateTimeValid(y, mo, d, 0, 0)
    THEN [kind |-> "date", year |-> y, month |-> mo, day |-> d]
    ELSE [kind |-> "ValueError"]

\* Lines 160-164 on the normalised text
ParseDateText(s) ==
    IF ~DateMatches(s) THEN [kind |-> "none"]
    ELSE DateOf(ToInt(SubSeq(s, 1, 2)), ToInt(SubSeq(s, 4, 5)), ToInt(SubSeq(s, 7, 10)))

parse_date_cell(raw) == ParseDateText(normalize_space(raw))

(***************************************************************************)
(* to_utc_iso: Europe/Oslo wall clock -> "YYYY-MM-DDTHH:MM:SSZ"            *)
(***************************************************************************)
\* Day of the month of the last Sunday of month m (March or October, 31 days)
LastSunday(y, m) == 31 - ((DaysFromCivil(y, m, 31) + 4) % 7)

\* Whether the wall clock mo-d hh:.. is at or after 03:00 of day sunday of month m
AtOrAfter(mo, d, hh, m, sunday) ==
    mo > m \/ (mo = m /\ (d > sunday \/ (d = sunday /\ hh >= 3)))

\* utcoffset() in hours of the wall clock y-mo-d hh:mm in Europe/Oslo (fold=0):
\* summer time from 03:00 on the last Sunday of March until 03:00 on the last
\* Sunday of October (the rule in force since 1996).
OsloOffset(y, mo, d, hh, mm) ==
    IF AtOrAfter(mo, d, hh, 3, LastSunday(y, 3))
       /\ ~AtOrAfter(mo, d, hh, 10, LastSunday(y, 10))
    THEN 2 ELSE 1

\* A UTC instant as minutes since 1970-01-01T00:00Z
UtcMinutes(y, mo, d, hh, mm) ==
    (DaysFromCivil(y, mo, d) * 24 + hh - OsloOffset(y, mo, d, hh, mm)) * 60 + mm

\* "YYYY-MM-DDTHH:MM:SSZ" of the date ymd and second sod of the day
IsoText(ymd, sod) ==
    Pad(ymd[1], 4) \o <<"-">> \o Pad(ymd[2], 2) \o <<"-">> \o Pad(ymd[3], 2)
    \o <<"T">> \o Pad(sod \div 3600, 2) \o <<":">> \o Pad((sod % 3600) \div 60, 2)
    \o <<":">> \o Pad(sod % 60, 2) \o <<"Z">>

\* isoformat() of a UTC instant with "+00:00" replaced by "Z"
IsoOfMinutes(t) == IsoText(CivilFromDays(t \div 1440), (t % 1440) * 60)

to_utc_iso(y, mo, d, hh, mm) == IsoOfMinutes(UtcMinutes(y, mo, d, hh, mm))


(***************************************************************************)
(* The result cell: score and status (parse_matches_from_page, 340-359)    *)
(*                                                                         *)
(* A result text is a sequence of tokens: decimal digits, " ", the hyphen  *)
(* "-", the en dash "ndash", and whole words.                              *)
(***************************************************************************)
IsSpace(c) == c = " "

IsDash(c) == c \in {"-", "ndash"}

\* Words whose lower-case form contains "avly"
HasAvly(w) == w \in {"Avlyst", "avlyst", "AVLYST"}

\* Words whose lower-case form contains "utsatt" or "omberam"
HasUtsatt(w) == w \in {"Utsatt", "utsatt", "Omberammet"}

\* First index >= i of s that holds no decimal digit (Len(s) + 1 when none)
RECURSIVE DigitsEnd(_, _)
DigitsEnd(s, i) == IF i <= Len(s) /\ IsDigit(s[i]) THEN DigitsEnd(s, i + 1) ELSE i

\* First index >= i of s that holds no white space
RECURSIVE SpacesEnd(_, _)
SpacesEnd(s, i) == IF i <= Len(s) /\ IsSpace(s[i]) THEN SpacesEnd(s, i + 1) ELSE i

\* s holds a decimal digit at index i
DigitAt(s, i) == i <= Len(s) /\ IsDigit(s[i])

\* s holds a dash at index i and, after white space, a decimal digit
DashThenDigit(s, i) ==
    i <= Len(s) /\ IsDash(s[i]) /\ DigitAt(s, SpacesEnd(s, i + 1))

\* Whether (\d+)\s*[-ndash]\s*(\d+) matches s starting at index i
ScoreMatchesAt(s, i) == DigitAt(s, i) /\ DashThenDigit(s, SpacesEnd(s, DigitsEnd(s, i)))

\* The least element of a non-empty set of indices
Least(S) == CHOOSE k \in S : \A j \in S : k <= j

\* The digits of s from index i on
DigitsFrom(s, i) == SubSeq(s, i, DigitsEnd(s, i) - 1)

\* The two groups of the match that starts at index i
ScoreGroups(s, i) ==
    [found |-> TRUE,
     g1    |-> DigitsFrom(s, i),
     g2    |-> DigitsFrom(s, SpacesEnd(s, SpacesEnd(s, DigitsEnd(s, i)) + 1))]

ScoreAmong(s, starts) == IF starts = {} THEN [found |-> FALSE] ELSE ScoreGroups(s, Least(starts))

\* re.search(r"(\d+)\s*[-ndash]\s*(\d+)", s): None, or the two groups of the
\* leftmost match
ScoreSearch(s) == ScoreAmong(s, {i \in 1..Len(s) : ScoreMatchesAt(s, i)})

\* The keyword branch, taken on lower-cased text (lines 355-359)
KeywordStatus(low) ==
    IF \E i \in 1..Len(low) : HasAvly(low[i]) THEN "CANCELLED"
    ELSE IF \E i \in 1..Len(low) : HasUtsatt(low[i]) THEN "POSTPONED"
    ELSE "SCHEDULED"

\* Lines 344-359 with the keyword branch taken whether or not a score was found
StatusOfKeywordOverScore(res_raw, mres) ==
    IF mres.found
    THEN [homeGoals |-> Some(ToInt(mres.g1)),
          awayGoals |-> Some(ToInt(mres.g2)),
          status    |-> IF KeywordStatus(res_raw) = "SCHEDULED" THEN "FINISHED"
                        ELSE KeywordStatus(res_raw)]
    ELSE [homeGoals |-> None, awayGoals |-> None, status |-> KeywordStatus(res_raw)]

\* home_goals, away_goals and status, given mres (lines 344-359)
StatusOf(res_raw, mres) ==
    IF mres.found
    THEN [homeGoals |-> Some(ToInt(mres.g1)),
          awayGoals |-> Some(ToInt(mres.g2)),
          status    |-> "FINISHED"]
    ELSE [homeGoals |-> None, awayGoals |-> None, status |-> KeywordStatus(res_raw)]

\* home_goals, away_goals and status of a result text (lines 344-359)
ResultOf(res_raw) == StatusOf(res_raw, ScoreSearch(res_raw))

(***************************************************************************)
(* Cells of a table row.  A cell the row does not have (the column is not  *)
(* in the header, or the row is too short) is NoCell; a cell is <<text>>.  *)
(***************************************************************************)
NoCell == <<>>

Cell(text) == <<text>>

\* cells_text[i] if (i is not None and i < len(cells_text)) else default
CellOr(c, default) == IF c = NoCell THEN default ELSE normalize_space(c[1])

(***************************************************************************)
(* matchUrl and matchId (lines 374-391, match_id_from_url)                 *)
(*                                                                         *)
(* The first anchor of a row is [present, page, fiksId]: a link to         *)
(* /fotballdata/<page>/?fiksId=<fiksId>.                                   *)
(***************************************************************************)
BASE == <<"https://www.fotball.no">>

NoHref == [present |-> FALSE, page |-> "", fiksId |-> <<>>]

\* urljoin(BASE, a["href"])
FullUrl(href) == BASE \o <<"/fotballdata/", href.page, "/?fiksId=">> \o href.fiksId

\* "/fotballdata/kamp/" in full and "fiksId=" in full
IsMatchUrl(href) == href.present /\ href.page = "kamp"

\* parse_qs(...).get("fiksId", [None])[0]: blank values are dropped
match_id_from_url(href) == IF href.fiksId # <<>> THEN Some(href.fiksId) ELSE None

\* hashlib.sha1(text).hexdigest()[:10], taken as collision-free on the texts
\* of the model: the digest is represented by its tagged input.
Sha1Of(text) == <<"sha1:">> \o text

\* f"{kickoff_iso}|{home}|{away}|{fiks_id}"
FallbackIdText(kickoff_iso, home, away, fiks_id) ==
    kickoff_iso \o <<"|">> \o home \o <<"|">> \o away \o <<"|">> \o fiks_id

MatchIdOf(href, kickoff_iso, home, away, fiks_id) ==
    IF IsMatchUrl(href) /\ match_id_from_url(href) # None
    THEN match_id_from_url(href)[1]
    ELSE Sha1Of(FallbackIdText(kickoff_iso, home, away, fiks_id))

MatchUrlOf(href) == IF IsMatchUrl(href) THEN FullUrl(href) ELSE <<>>

(***************************************************************************)
(* Logos (logo_from_cell, download_logo)                                   *)
(***************************************************************************)
PLACEHOLDER == <<"assets/logos/placeholder.svg">>

\* The cell has an <img> (hasImg) and the download succeeds (ok), or the
\* placeholder: every failure inside download_logo is caught there.
download_logo(hasImg, ok, team_name) ==
    IF hasImg /\ ok THEN <<"assets/logos/">> \o team_name \o <<".png">>
    ELSE PLACEHOLDER

(***************************************************************************)
(* round (lines 364-372)                                                   *)
(***************************************************************************)
RoundText(r) == IF r # <<>> /\ AllDigits(r) THEN <<"Runde", " ">> \o r ELSE r

RoundOf(c) == RoundText(CellOr(c, <<>>))

(***************************************************************************)
(* One pass of the row loop of parse_matches_from_page (lines 309-437)     *)
(***************************************************************************)
\* page_title.replace(" - Norges Fotballforbund", "").strip()
TournamentOf(page_title) ==
    IF page_title # <<>> /\ page_title[Len(page_title)] = " - Norges Fotballforbund"
    THEN SubSeq(page_title, 1, Len(page_title) - 1)
    ELSE page_title

\* The Match appended for a row (lines 423-437)
MatchOf(row, fiks_id, page_title, dl, kickoff_iso, home, away, res) ==
    [matchId     |-> MatchIdOf(row.href, kickoff_iso, home, away, fiks_id),
     kickoff     |-> kickoff_iso,
     homeTeam    |-> home,
     awayTeam    |-> away,
     homeLogoUrl |-> download_logo(row.homeImg, dl[1], home),
     awayLogoUrl |-> download_logo(row.awayImg, dl[2], away),
     venue       |-> CellOr(row.venue, <<>>),
     status      |-> res.status,
     homeGoals   |-> res.homeGoals,
     awayGoals   |-> res.awayGoals,
     tournament  |-> TournamentOf(page_title),
     round       |-> RoundOf(row.round),
     matchUrl    |-> MatchUrlOf(row.href)]

\* Lines 336-437: datetime(d.year, d.month, d.day, hh or 0, mm or 0, tzinfo=OSLO)
\* raises ValueError when the hour or the minute is out of range
RowAt(row, fiks_id, page_title, dl, d, hh, mm, home, away) ==
    IF ~DateTimeValid(d.year, d.month, d.day, hh, mm) THEN [kind |-> "ValueError"]
    ELSE [kind |-> "match",
          m    |-> MatchOf(row, fiks_id, page_title, dl,
                           to_utc_iso(d.year, d.month, d.day, hh, mm), home, away,
                           ResultOf(CellOr(row.res, <<"-">>)))]

\* Lines 333-334, given the parsed date d and time t
RowTimed(row, fiks_id, page_title, dl, d, t, home, away) ==
    RowAt(row, fiks_id, page_title, dl, d, OrZero(t.hh), OrZero(t.mm), home, away)

\* Lines 329-331, given the parsed date d
RowDated(row, fiks_id, page_title, dl, d, home, away) ==
    IF d.kind = "ValueError" THEN [kind |-> "ValueError"]
    ELSE IF d.kind = "none" THEN [kind |-> "skip"]
    ELSE RowTimed(row, fiks_id, page_title, dl, d,
                  parse_time_cell(CellOr(row.time, <<>>)), home, away)

\* Lines 326-329, given the three mandatory cell texts
RowCells(row, fiks_id, page_title, dl, date_raw, home, away) ==
    IF date_raw = <<>> \/ home = <<>> \/ away = <<>> THEN [kind |-> "skip"]
    ELSE RowDated(row, fiks_id, page_title, dl, parse_date_cell(date_raw), home, away)

\* The row up to the dedup test: "skip" (continue), "ValueError" (datetime
\* raises out of the page parse) or "match" with the Match it would append.
\* dl = <<home download succeeded, away download succeeded>>.
BuildRow(row, fiks_id, page_title, dl) ==
    IF row.date = NoCell \/ row.home = NoCell \/ row.away = NoCell
    THEN [kind |-> "skip"]
    ELSE RowCells(row, fiks_id, page_title, dl, normalize_space(row.date[1]),
                  normalize_space(row.home[1]), normalize_space(row.away[1]))

\* key = (match_id, kickoff_iso, home, away)
KeyOf(m) == <<m.matchId, m.kickoff, m.homeTeam, m.awayTeam>>

\* The state of a page parse: matches, seen, and whether an exception left it
ParseStart == [matches |-> <<>>, seen |-> {}, raised |-> FALSE]

\* Lines 418-437 without the test of line 419
EmitWithoutDedup(st, m, key) ==
    [st EXCEPT !.matches = Append(@, m), !.seen = @ \cup {key}]

\* Lines 418-437: the dedup test and the append
Emit(st, m, key) ==
    IF key \in st.seen THEN st
    ELSE [st EXCEPT !.matches = Append(@, m), !.seen = @ \cup {key}]

\* What the built row b does to the parse
Apply(st, b) ==
    IF st.raised \/ b.kind = "skip" THEN st
    ELSE IF b.kind = "ValueError" THEN [st EXCEPT !.raised = TRUE]
    ELSE Emit(st, b.m, KeyOf(b.m))

ProcessRow(st, row, fiks_id, page_title, dl) ==
    Apply(st, BuildRow(row, fiks_id, page_title, dl))


(***************************************************************************)
(* parse_matches_from_page on a whole page, and fetch_team                 *)
(*                                                                         *)
(* The outcome of fetching one candidate page is [fetched, title, rows,    *)
(* dls]: http_get raised (fetched = FALSE), or the page's <h1> title and   *)
(* the rows of its match table, with the outcome of the logo downloads of  *)
(* each row.                                                               *)
(***************************************************************************)
RECURSIVE ParseRows(_, _, _, _, _)
ParseRows(st, rows, dls, fiks_id, page_title) ==
    IF rows = <<>> THEN st
    ELSE ParseRows(ProcessRow(st, Head(rows), fiks_id, page_title, Head(dls)),
                   Tail(rows), Tail(dls), fiks_id, page_title)

\* What the caller sees of a page parse that ended in state st
PageResult(page, st) ==
    [raised  |-> st.raised,
     title   |-> page.title,
     matches |-> IF st.raised THEN <<>> ELSE st.matches]

\* [raised, title, matches]: an exception, or the returned (page_title, matches)
parse_matches_from_page(page, fiks_id) ==
    IF ~page.fetched THEN [raised |-> TRUE, title |-> <<>>, matches |-> <<>>]
    ELSE PageResult(page, ParseRows(ParseStart, page.rows, page.dls, fiks_id, page.title))

\* list.sort(key=lambda m: m.kickoff): stable, ascending in str order
RECURSIVE InsertByKickoff(_, _)
InsertByKickoff(sorted, m) ==
    IF sorted = <<>> THEN <<m>>
    ELSE IF StrLess(m.kickoff, sorted[Len(sorted)].kickoff)
         THEN Append(InsertByKickoff(SubSeq(sorted, 1, Len(sorted) - 1), m),
                     sorted[Len(sorted)])
         ELSE Append(sorted, m)

RECURSIVE SortByKickoff(_)
SortByKickoff(ms) ==
    IF ms = <<>> THEN <<>>
    ELSE InsertByKickoff(SortByKickoff(SubSeq(ms, 1, Len(ms) - 1)), ms[Len(ms)])

DefaultTitle == <<"2026">>

\* re.search(r"^(.*?)\s*-\s*2026", last_title): the shortest prefix followed by
\* white space, a hyphen, white space and 2026; None when there is none
TokenAt(s, i, tok) == i <= Len(s) /\ s[i] = tok

HyphenThenYear(s, i) == TokenAt(s, i, "-") /\ TokenAt(s, SpacesEnd(s, i + 1), "2026")

BadgeMatchAt(s, i) == HyphenThenYear(s, SpacesEnd(s, i + 1))

BadgeAmong(last_title, hits) ==
    IF hits = {} THEN DefaultTitle
    ELSE normalize_space(SubSeq(last_title, 1, Least(hits)))

TournamentBadge(last_title) ==
    BadgeAmong(last_title, {i \in 0..Len(last_title) : BadgeMatchAt(last_title, i)})

\* The tournament page, then the team page (lines 115-120)
candidate_pages(fiks_id) ==
    << BASE \o <<"/fotballdata/", "turnering", "/hjem/?fiksId=">> \o fiks_id,
       BASE \o <<"/fotballdata/", "lag", "/hjem/?fiksId=">> \o fiks_id >>

\* The loop over candidate_pages (lines 449-458): [title, matches] after it
RECURSIVE TryPages(_, _, _)
RECURSIVE AfterPage(_, _, _, _)
TryPages(pages, fiks_id, last_title) ==
    IF pages = <<>> THEN [title |-> last_title, matches |-> <<>>]
    ELSE AfterPage(Tail(pages), fiks_id, last_title,
                   parse_matches_from_page(Head(pages), fiks_id))

\* One pass of the loop, given the outcome r of the page parse; rest are the
\* candidate pages not yet tried
AfterPage(rest, fiks_id, last_title, r) ==
    IF r.raised THEN TryPages(rest, fiks_id, last_title)
    ELSE IF r.matches # <<>>
         THEN [title |-> IF r.title # <<>> THEN r.title ELSE last_title, matches |-> r.matches]
         ELSE TryPages(rest, fiks_id, IF r.title # <<>> THEN r.title ELSE last_title)

\* fetch_team without the sort of lines 460-461
MatchesAsParsed(ms) == ms

\* The matches list of fetch_team after line 461
SortedMatches(ms) == SortByKickoff(ms)

\* The dict fetch_team returns (lines 463-477)
TeamData(cfg, badge, matches) ==
    [fiksId     |-> cfg.fiksId,
     teamName   |-> cfg.teamName,
     tournament |-> IF badge # DefaultTitle THEN badge \o <<" (2026)">> ELSE DefaultTitle,
     matches    |-> matches]

\* Lines 460-477, given what the loop over the candidate pages left
FromPages(cfg, got) == TeamData(cfg, TournamentBadge(got.title), SortedMatches(got.matches))

fetch_team(cfg, pages) == FromPages(cfg, TryPages(pages, cfg.fiksId, DefaultTitle))

TEAM_CONFIG ==
    [a |-> [fiksId |-> <<"205403">>, teamName |-> <<"Fagerborg">>],
     b |-> [fiksId |-> <<"205410">>, teamName |-> <<"Fagerborg">>]]


(***************************************************************************)
(* The ICS encoder (ics_escape, ics_dt, match_status_to_ics, build_ics)    *)
(*                                                                         *)
(* An instant of the clock is a number of seconds since 1970-01-01T00:00Z. *)
(***************************************************************************)
ics_escape(s) ==
    [i \in 1..Len(s) |->
        CASE s[i] = "\\" -> "\\\\"
          [] s[i] = ";"  -> "\\;"
          [] s[i] = ","  -> "\\,"
          [] s[i] = "\n" -> "\\n"
          [] OTHER       -> s[i]]

\* str(n) of a non-negative int
RECURSIVE IntText(_)
IntText(n) == IF n < 10 THEN <<Digits[n + 1]>> ELSE Append(IntText(n \div 10), Digits[(n % 10) + 1])

StampText(ymd, sod) ==
    Pad(ymd[1], 4) \o Pad(ymd[2], 2) \o Pad(ymd[3], 2) \o <<"T">>
    \o Pad(sod \div 3600, 2) \o Pad((sod % 3600) \div 60, 2) \o Pad(sod % 60, 2)
    \o <<"Z">>

\* strftime("%Y%m%dT%H%M%SZ")
FormatStamp(secs) == StampText(CivilFromDays(secs \div 86400), secs % 86400)

\* datetime.fromisoformat("YYYY-MM-DDTHH:MM:SS+00:00") as an instant
FromIso(s) ==
    (DaysFromCivil(ToInt(SubSeq(s, 1, 4)), ToInt(SubSeq(s, 6, 7)), ToInt(SubSeq(s, 9, 10)))
        * 1440 + ToInt(SubSeq(s, 12, 13)) * 60 + ToInt(SubSeq(s, 15, 16))) * 60
    + ToInt(SubSeq(s, 18, 19))

\* now is what datetime.now(timezone.utc) returns when ics_dt reads the clock
ics_dt(dt_iso_z, now) == IF dt_iso_z = <<>> THEN now ELSE FromIso(dt_iso_z)

match_status_to_ics(status) == IF status = "CANCELLED" THEN "CANCELLED" ELSE "CONFIRMED"

\* "\n".join(desc_parts)
RECURSIVE JoinNl(_)
JoinNl(parts) ==
    IF parts = <<>> THEN <<>>
    ELSE IF Len(parts) = 1 THEN parts[1]
    ELSE parts[1] \o <<"\n">> \o JoinNl(Tail(parts))

\* summary (lines 532-541)
SummaryOf(m) ==
    (IF m.homeTeam # <<>> THEN m.homeTeam ELSE <<"Hjemmelag">>)
    \o <<" ", "ndash", " ">>
    \o (IF m.awayTeam # <<>> THEN m.awayTeam ELSE <<"Bortelag">>)
    \o (IF m.homeGoals # None /\ m.awayGoals # None
        THEN <<" ", "(">> \o IntText(m.homeGoals[1]) \o <<"ndash">>
             \o IntText(m.awayGoals[1]) \o <<")">>
        ELSE <<>>)

\* desc_parts (lines 548-554)
DescParts(m) ==
    (IF m.tournament # <<>> THEN << <<"Turnering: ">> \o m.tournament >> ELSE <<>>)
    \o (IF m.round # <<>> THEN << <<"Runde: ">> \o m.round >> ELSE <<>>)
    \o (IF m.matchUrl # <<>> THEN << <<"Kamp: ">> \o m.matchUrl >> ELSE <<>>)

\* Lines 559-562
WithPostponed(status, description) ==
    IF status = "POSTPONED"
    THEN (IF description # <<>> THEN description \o <<"\n">> ELSE description)
         \o <<"Status: Utsatt/omberammet (detaljer p", "aa", " lenken over).">>
    ELSE description

DescriptionOf(m) == WithPostponed(m.status, JoinNl(DescParts(m)))

\* The lines of one VEVENT (lines 564-580), dtstart being ics_dt(kickoff)
EventBlock(m, team_key, dtstamp, dtstart) ==
    << <<"BEGIN:VEVENT">>,
       <<"UID:">> \o ics_escape(m.matchId \o <<"-", team_key, "@fagerborgbk">>),
       <<"DTSTAMP:">> \o dtstamp,
       <<"DTSTART:">> \o FormatStamp(dtstart),
       <<"DTEND:">> \o FormatStamp(dtstart + 2 * 3600),
       <<"SUMMARY:">> \o ics_escape(SummaryOf(m)),
       <<"DESCRIPTION:">> \o ics_escape(DescriptionOf(m)),
       <<"STATUS:", match_status_to_ics(m.status)>> >>
    \o (IF m.venue # <<>> THEN << <<"LOCATION:">> \o ics_escape(m.venue) >> ELSE <<>>)
    \o (IF m.matchUrl # <<>> THEN << <<"URL:">> \o ics_escape(m.matchUrl) >> ELSE <<>>)
    \o << <<"END:VEVENT">> >>

\* The lines one match adds (lines 523-580); dtstamp is the DTSTAMP text and
\* now what the clock returns if ics_dt reads it
EventLines(m, team_key, dtstamp, now) ==
    EventBlock(m, team_key, dtstamp, ics_dt(m.kickoff, now))

IcsPrologue(calendar_name) ==
    << <<"BEGIN:VCALENDAR">>,
       <<"VERSION:2.0">>,
       <<"PRODID:-//Fagerborg BK//Terminliste 2026//NO">>,
       <<"CALSCALE:GREGORIAN">>,
       <<"METHOD:PUBLISH">>,
       <<"X-WR-CALNAME:">> \o ics_escape(calendar_name),
       <<"X-WR-TIMEZONE:UTC">> >>

\* "\r\n".join(lines) + "\r\n"
RECURSIVE JoinCrLf(_)
JoinCrLf(lines) ==
    IF lines = <<>> THEN <<>> ELSE Head(lines) \o <<"\r\n">> \o JoinCrLf(Tail(lines))

RECURSIVE AllEventLines(_, _, _, _)
AllEventLines(matches, team_key, dtstamp, reads) ==
    IF matches = <<>> THEN <<>>
    ELSE EventLines(Head(matches), team_key, dtstamp, Head(reads))
         \o AllEventLines(Tail(matches), team_key, dtstamp, Tail(reads))

\* build_ics, given what the clock returned: now_utc at line 509 and reads[i]
\* inside ics_dt for the i-th match
build_ics(calendar_name, team_key, matches, now_utc, reads) ==
    JoinCrLf(IcsPrologue(calendar_name)
             \o AllEventLines(matches, team_key, FormatStamp(now_utc), reads)
             \o << <<"END:VCALENDAR">> >>)


(***************************************************************************)
(* Bounds and inputs                                                       *)
(***************************************************************************)
\* Rows read from one table in the page-parse specification
MaxRows == 3

\* Rows of a fetched page in a run of main
MaxPageRows == 2

\* Seconds the clock advances during the behaviour
MaxTicks == 1

\* Records handed to build_ics
MaxIcsMatches == 2

\* Rows of a table of the row specification
MaxWideRows == 1

DateText(d, mo, y) == Pad(d, 2) \o <<".">> \o Pad(mo, 2) \o <<".">> \o Pad(y, 4)

TimeText(h, m, sep) == Pad(h, 2) \o <<sep>> \o Pad(m, 2)

Fagerborg == <<"Fagerborg">>

Ready == <<"Ready">>

KampHref(fid) == [present |-> TRUE, page |-> "kamp", fiksId |-> fid]

TitleDiv == <<"4. divisjon", " ", "-", " ", "2026", " - Norges Fotballforbund">>

\* A table row: the cells under Dato, Tid, Hjemmelag, Bortelag, Resultat, Bane
\* and Runde, the first anchor of the row, and whether the team cells hold an
\* <img>.
Row(date, time, home, away, res, href) ==
    [date |-> date, time |-> time, home |-> home, away |-> away, res |-> res,
     venue |-> Cell(<<"Voldsl", "oe", "kka">>), round |-> NoCell, href |-> href,
     homeImg |-> FALSE, awayImg |-> FALSE]

\* The clock when the behaviour starts: 2026-04-12T10:00:59Z
StartInstant == DaysFromCivil(2026, 4, 12) * 86400 + (10 * 60 + 0) * 60 + 59

(***************************************************************************)
(* State                                                                   *)
(***************************************************************************)
VARIABLES
    clock,        \* what datetime.now(timezone.utc) returns, in seconds
    pc,           \* position of main
    disk,         \* data/matches.json, data/a.ics, data/b.ics, data/all.ics
    prev,         \* the disk when the current run started
    out,          \* the dict main builds: updatedAt, a, b
    fetched,      \* per team, the matches list of fetch_team before the sort
    all_matches,  \* sorted(a_matches + b_matches)
    ics,          \* ics_a, ics_b, ics_all
    p_pc,         \* page parse: "rows", "returned" or "raised"
    p_rows,       \* page parse: the rows read so far
    p_dls,        \* page parse: the outcome of the logo downloads of each row read
    p_st,         \* page parse: matches, seen
    p_src,        \* page parse: for each record of matches, the row it was built from
    i_in,         \* build_ics: the arguments calendar_name, team_key, matches
    i_idx,        \* build_ics: matches encoded so far by the current invocation
    i_pc,         \* build_ics: position of the current invocation
    i_now,        \* build_ics: now_utc of the current invocation
    i_lines,      \* build_ics: lines so far
    i_done,       \* build_ics: <<now_utc, text>> of the finished invocations
    f_key,        \* fetch_team: team_key
    f_in,         \* fetch_team: what each candidate page turns out to be
    f_i,          \* fetch_team: candidate pages the loop has gone through
    f_pc,         \* fetch_team: "idle", "loop", "sort" or "returned"
    f_log,        \* fetch_team: the URLs handed to http_get by the page parses
    f_title,      \* fetch_team: last_title
    f_matches,    \* fetch_team: matches
    f_ret         \* fetch_team: the dict returned

mainVars == <<pc, disk, prev, out, fetched, all_matches, ics>>

parseVars == <<p_pc, p_rows, p_dls, p_st, p_src>>

icsVars == <<i_in, i_idx, i_pc, i_now, i_lines, i_done>>

fetchVars == <<f_key, f_in, f_i, f_pc, f_log, f_title, f_matches, f_ret>>

vars == <<clock, mainVars, parseVars, icsVars, fetchVars>>

\* A file: missing, written whole, or truncated by a write that failed
NoFile == [state |-> "missing", content |-> <<>>]

Written(content) == [state |-> "written", content |-> <<content>>]

Truncated == [state |-> "truncated", content |-> <<>>]

Files == {"json", "a", "b", "all"}

NoData == [fiksId |-> <<>>, teamName |-> <<>>, tournament |-> <<>>, matches |-> <<>>]

InitMain ==
    /\ pc = "idle"
    /\ disk = [f \in Files |-> NoFile]
    /\ prev = disk
    /\ out = [updatedAt |-> <<>>, a |-> NoData, b |-> NoData]
    /\ fetched = [a |-> <<>>, b |-> <<>>]
    /\ all_matches = <<>>
    /\ ics = [a |-> <<>>, b |-> <<>>, all |-> <<>>]

InitParse ==
    /\ p_pc = "rows"
    /\ p_rows = <<>>
    /\ p_dls = <<>>
    /\ p_st = ParseStart
    /\ p_src = <<>>

NoIcsCall == [name |-> <<>>, key |-> "", matches |-> <<>>]

InitFetchIdle ==
    /\ f_key = ""
    /\ f_in = <<>>
    /\ f_i = 0
    /\ f_pc = "idle"
    /\ f_log = <<>>
    /\ f_title = <<>>
    /\ f_matches = <<>>
    /\ f_ret = NoData

InitIcsIdle ==
    /\ i_in = NoIcsCall
    /\ i_idx = 0
    /\ i_pc = "idle"
    /\ i_now = 0
    /\ i_lines = <<>>
    /\ i_done = <<>>

Init ==
    /\ clock = StartInstant
    /\ InitMain
    /\ InitParse
    /\ InitIcsIdle
    /\ InitFetchIdle

\* The clock advances
Tick ==
    /\ clock < StartInstant + MaxTicks
    /\ clock' = clock + 1
    /\ UNCHANGED <<mainVars, parseVars, icsVars, fetchVars>>


(***************************************************************************)
(* main (lines 596-626)                                                    *)
(***************************************************************************)
SeqsUpTo(S, n) == UNION {[1..k -> S] : k \in 0..n}

MainRows ==
    { Row(Cell(DateText(12, 4, 2026)), Cell(TimeText(18, 30, ":")), Cell(Fagerborg),
          Cell(Ready), Cell(<<"2", " ", "-", " ", "1">>), KampHref(<<"8975343">>)),
      Row(Cell(DateText(29, 3, 2026)), Cell(TimeText(2, 59, ".")), Cell(Ready),
          Cell(Fagerborg), Cell(<<"-">>), NoHref),
      Row(Cell(DateText(31, 2, 2026)), Cell(TimeText(18, 30, ":")), Cell(Fagerborg),
          Cell(Ready), Cell(<<"-">>), NoHref) }

FetchFailed == [fetched |-> FALSE, title |-> <<>>, rows |-> <<>>, dls |-> <<>>]

\* What a candidate page can turn out to be in a run of main
PageOutcomes ==
    {FetchFailed} \cup
    {[fetched |-> TRUE, title |-> TitleDiv, rows |-> r,
      dls |-> [i \in 1..Len(r) |-> <<FALSE, FALSE>>]] : r \in SeqsUpTo(MainRows, MaxPageRows)}

UpdatedAtText(ymd, sod) ==
    Pad(ymd[1], 4) \o <<"-">> \o Pad(ymd[2], 2) \o <<"-">> \o Pad(ymd[3], 2) \o <<" ">>
    \o Pad(sod \div 3600, 2) \o <<":">> \o Pad((sod % 3600) \div 60, 2) \o <<" UTC">>

\* strftime("%Y-%m-%d %H:%M UTC")
FormatUpdatedAt(secs) == UpdatedAtText(CivilFromDays(secs \div 86400), secs % 86400)

CalendarName(k) ==
    CASE k = "a"   -> <<"Fagerborg BK ", "ndash", " A-laget (2026)">>
      [] k = "b"   -> <<"Fagerborg BK ", "ndash", " B-laget (2026)">>
      [] k = "all" -> <<"Fagerborg BK ", "ndash", " Alle kamper (2026)">>

\* sorted(a_matches + b_matches, key=lambda m: (m.get("kickoff") or ""))
Combined(a_matches, b_matches) == SortByKickoff(a_matches \o b_matches)

MatchesFor(k) == IF k = "all" THEN all_matches ELSE out[k].matches

\* build_ics(name, k, matches) with every read of the clock returning t
IcsAt(k, matches, t) ==
    build_ics(CalendarName(k), k, matches, t, [i \in 1..Len(matches) |-> t])

\* ensure_dirs() and the out dict with updatedAt (lines 597-601)
EnsureDirs ==
    /\ pc = "ensure_dirs"
    /\ out' = [out EXCEPT !.updatedAt = FormatUpdatedAt(clock)]
    /\ pc' = "fetch_a"
    /\ UNCHANGED <<clock, disk, prev, fetched, all_matches, ics, parseVars, icsVars, fetchVars>>

\* os.makedirs or the placeholder write raises: nothing in main catches it
EnsureDirsFails ==
    /\ pc = "ensure_dirs"
    /\ pc' = "crashed"
    /\ UNCHANGED <<clock, disk, prev, out, fetched, all_matches, ics, parseVars, icsVars, fetchVars>>

\* For each team, what fetch_team can return over every outcome of its two
\* candidate pages: the dataset, with the matches list as it was before the sort
FetchOutcomes ==
    [k \in {"a", "b"} |->
        {[data |-> fetch_team(TEAM_CONFIG[k], <<p1, p2>>),
          raw  |-> TryPages(<<p1, p2>>, TEAM_CONFIG[k].fiksId, DefaultTitle).matches] :
            p1 \in PageOutcomes, p2 \in PageOutcomes}]

\* fetch_team(k, TEAM_CONFIG[k]) (lines 603-607)
FetchTeam(k) ==
    /\ pc = "fetch_" \o k
    /\ \E r \in FetchOutcomes[k] :
          /\ out' = [out EXCEPT ![k] = r.data]
          /\ fetched' = [fetched EXCEPT ![k] = r.raw]
    /\ pc' = IF k = "a" THEN "fetch_b" ELSE "write_json"
    /\ UNCHANGED <<clock, disk, prev, all_matches, ics, parseVars, icsVars, fetchVars>>

\* write_file(OUT_JSON, json.dumps(out)) and the combined list (lines 610-615).
\* The file's text is represented by the dict it serialises.
WriteJson ==
    /\ pc = "write_json"
    /\ disk' = [disk EXCEPT !["json"] = Written(out)]
    /\ all_matches' = Combined(out.a.matches, out.b.matches)
    /\ pc' = "build_a"
    /\ UNCHANGED <<clock, prev, out, fetched, ics, parseVars, icsVars, fetchVars>>

\* write_file raises OSError: before the file is opened (the file is left as
\* it was) or while writing (open(path, "w") has truncated it)
WriteJsonFails ==
    /\ pc = "write_json"
    /\ \/ UNCHANGED disk
       \/ disk' = [disk EXCEPT !["json"] = Truncated]
    /\ pc' = "crashed"
    /\ UNCHANGED <<clock, prev, out, fetched, all_matches, ics, parseVars, icsVars, fetchVars>>

\* ics_k = build_ics(name, k, matches) (lines 617-619)
BuildIcs(k) ==
    /\ pc = "build_" \o k
    /\ ics' = [ics EXCEPT ![k] = IcsAt(k, MatchesFor(k), clock)]
    /\ pc' = CASE k = "a" -> "build_b" [] k = "b" -> "build_all" [] k = "all" -> "write_a"
    /\ UNCHANGED <<clock, disk, prev, out, fetched, all_matches, parseVars, icsVars, fetchVars>>

\* write_file(OUT_ICS_k, ics_k) (lines 621-623)
WriteIcs(k) ==
    /\ pc = "write_" \o k
    /\ disk' = [disk EXCEPT ![k] = Written(ics[k])]
    /\ pc' = CASE k = "a" -> "write_b" [] k = "b" -> "write_all" [] k = "all" -> "print"
    /\ UNCHANGED <<clock, prev, out, fetched, all_matches, ics, parseVars, icsVars, fetchVars>>

WriteIcsFails(k) ==
    /\ pc = "write_" \o k
    /\ \/ UNCHANGED disk
       \/ disk' = [disk EXCEPT ![k] = Truncated]
    /\ pc' = "crashed"
    /\ UNCHANGED <<clock, prev, out, fetched, all_matches, ics, parseVars, icsVars, fetchVars>>

\* The two print calls; main returns and the process exits with status 0
PrintAndExit ==
    /\ pc = "print"
    /\ pc' = "done"
    /\ UNCHANGED <<clock, disk, prev, out, fetched, all_matches, ics, parseVars, icsVars, fetchVars>>

Next ==
    \/ Tick
    \/ EnsureDirs
    \/ EnsureDirsFails
    \/ FetchTeam("a")
    \/ FetchTeam("b")
    \/ WriteJson
    \/ WriteJsonFails
    \/ BuildIcs("a")
    \/ BuildIcs("b")
    \/ BuildIcs("all")
    \/ WriteIcs("a")
    \/ WriteIcs("b")
    \/ WriteIcs("all")
    \/ WriteIcsFails("a")
    \/ WriteIcsFails("b")
    \/ WriteIcsFails("all")
    \/ PrintAndExit

\* The instant of the previous scheduled run, an hour earlier
PrevInstant == StartInstant - 3600

\* The four files as a run of main that met no write failure, started at
\* instant t with the clock standing still, leaves them
DiskAfter(a_data, b_data, t) ==
    [f \in Files |->
        CASE f = "json" -> Written([updatedAt |-> FormatUpdatedAt(t),
                                    a |-> a_data, b |-> b_data])
          [] f = "a"    -> Written(IcsAt("a", a_data.matches, t))
          [] f = "b"    -> Written(IcsAt("b", b_data.matches, t))
          [] f = "all"  -> Written(IcsAt("all", Combined(a_data.matches, b_data.matches), t))]

\* The disk when a run starts: nothing written yet, or what the previous run
\* persisted
InitialDisks ==
    {[f \in Files |-> NoFile]} \cup
    {DiskAfter(ra.data, rb.data, PrevInstant) :
        ra \in FetchOutcomes["a"], rb \in FetchOutcomes["b"]}

\* A run of main, started by the schedule as a fresh process
InitRun ==
    /\ clock = StartInstant
    /\ pc = "ensure_dirs"
    /\ disk \in InitialDisks
    /\ prev = disk
    /\ out = [updatedAt |-> <<>>, a |-> NoData, b |-> NoData]
    /\ fetched = [a |-> <<>>, b |-> <<>>]
    /\ all_matches = <<>>
    /\ ics = [a |-> <<>>, b |-> <<>>, all |-> <<>>]
    /\ InitParse
    /\ InitIcsIdle
    /\ InitFetchIdle

Spec == InitRun /\ [][Next]_vars


(***************************************************************************)
(* The row loop of parse_matches_from_page, one row at a time              *)
(***************************************************************************)
Voldslokka == Cell(<<"Voldsl", "oe", "kka">>)

Apr12 == DateText(12, 4, 2026)

Mar29 == DateText(29, 3, 2026)

Kickoff1830 == Cell(TimeText(18, 30, ":"))

Link1 == KampHref(<<"8975343">>)

Link2 == KampHref(<<"8975344">>)

\* Rows of the tables of the page-parse specification: repeated rows, rows
\* that share a key but not the venue or the result, rows that share a link
\* but not the kickoff or the teams, rows datetime rejects, rows without the
\* mandatory cells, and a row with a logo to download.
PageRows ==
    { Row(Cell(Apr12), Kickoff1830, Cell(Fagerborg), Cell(Ready), Cell(<<"-">>), NoHref),
      [Row(Cell(Apr12), Kickoff1830, Cell(Fagerborg), Cell(Ready),
           Cell(<<"2", " ", "-", " ", "1">>), NoHref) EXCEPT !.venue = NoCell],
      Row(Cell(Mar29), Kickoff1830, Cell(Fagerborg), Cell(Ready), Cell(<<"-">>), NoHref),
      Row(Cell(Apr12), Kickoff1830, Cell(Ready), Cell(Fagerborg), NoCell, NoHref),
      Row(Cell(Apr12), Kickoff1830, Cell(Fagerborg), Cell(Ready), Cell(<<"-">>), Link1),
      Row(Cell(Mar29), Kickoff1830, Cell(Fagerborg), Cell(Ready), Cell(<<"-">>), Link1),
      Row(Cell(Apr12), Kickoff1830, Cell(Ready), Cell(Fagerborg), Cell(<<"Avlyst">>), Link1),
      [Row(Cell(Apr12), Cell(TimeText(2, 59, ".")), Cell(Fagerborg), Cell(Ready),
           Cell(<<"-">>), Link2) EXCEPT !.homeImg = TRUE],
      Row(Cell(DateText(31, 2, 2026)), Kickoff1830, Cell(Fagerborg), Cell(Ready),
          Cell(<<"-">>), NoHref),
      Row(Cell(Apr12), Cell(TimeText(25, 0, ":")), Cell(Ready), Cell(Fagerborg),
          Cell(<<"-">>), NoHref),
      Row(Cell(<<"1", "2", "/", "0", "4">>), Kickoff1830, Cell(Fagerborg), Cell(Ready),
          Cell(<<"-">>), NoHref),
      Row(Cell(Apr12), Kickoff1830, Cell(<<>>), Cell(Ready), Cell(<<"-">>), NoHref),
      Row(NoCell, NoCell, Cell(Fagerborg), NoCell, NoCell, NoHref) }

\* Date, time and result texts of the one-row tables
DateTexts ==
    { Apr12, Mar29, DateText(25, 10, 2026), DateText(1, 1, 2026), DateText(29, 2, 2024),
      <<" ">> \o Apr12 \o <<" ">>,
      DateText(31, 2, 2026), DateText(12, 13, 2026), DateText(0, 4, 2026),
      <<"1", "2", ".", "4", ".", "2", "0", "2", "6">>, <<>> }

TimeCells ==
    { Cell(TimeText(18, 30, ":")), Cell(TimeText(18, 30, ".")),
      Cell(TimeText(2, 59, ".")), Cell(TimeText(2, 59, ":")), Cell(<<"2", ":", "5", "9">>),
      Cell(TimeText(2, 58, ":")), Cell(TimeText(3, 59, ".")), Cell(TimeText(2, 30, ":")),
      Cell(TimeText(3, 0, ":")), Cell(TimeText(0, 0, ":")), Cell(TimeText(23, 59, ".")),
      Cell(<<"7", ".", "0", "5">>), Cell(<<" ", "1", "8", ":", "3", "0">>),
      Cell(TimeText(24, 0, ":")), Cell(TimeText(18, 60, ":")),
      Cell(<<"k", "l", " ", "1", "8">>), Cell(<<"1", "8", ":", "3", "0", ":", "0", "0">>),
      Cell(<<>>), NoCell }

ResCells ==
    { Cell(<<"-">>), Cell(<<>>), NoCell,
      Cell(<<"2", " ", "-", " ", "1">>), Cell(<<"2", "-", "1">>),
      Cell(<<"1", "0", "ndash", "0">>), Cell(<<"0", " ", " ", "-", "0">>),
      Cell(<<"2", "-">>), Cell(<<"-", "1">>), Cell(<<"2", " ", "1">>),
      Cell(<<"Avlyst">>), Cell(<<"AVLYST">>), Cell(<<"Utsatt">>), Cell(<<"Omberammet">>),
      Cell(<<"WO">>), Cell(<<"Utsatt", " ", "Avlyst">>),
      Cell(<<"Avlyst", " ", "2", "-", "1">>), Cell(<<"3", " ", "-", " ", "0", " ", "Utsatt">>),
      Cell(<<"Utsatt", " ", "2", "-">>) }

\* One-row tables: every date with every time, every result, and the cells
\* and links a row may lack; a cancellation keyword outside the result cell
WideRows ==
    {Row(Cell(d), t, Cell(Fagerborg), Cell(Ready), Cell(<<"-">>), NoHref) :
        d \in DateTexts, t \in TimeCells}
    \cup {Row(Cell(Apr12), Kickoff1830, Cell(Fagerborg), Cell(Ready), r, h) :
            r \in ResCells, h \in {NoHref, Link1}}
    \cup {[Row(Cell(Apr12), Kickoff1830, Cell(Fagerborg), Cell(Ready), r, NoHref)
             EXCEPT !.venue = Cell(<<"Avlyst">>)] : r \in {Cell(<<"-">>), NoCell}}
    \cup {Row(Cell(Apr12), Kickoff1830, h, a, Cell(<<"-">>), l) :
            h \in {Cell(Fagerborg), Cell(<<>>), NoCell},
            a \in {Cell(Ready), Cell(<<" ", "Ready", " ">>), NoCell},
            l \in {NoHref, Link1, KampHref(<<>>),
                   [present |-> TRUE, page |-> "lag", fiksId |-> <<"205403">>]}}

\* The outcomes of the logo downloads of a row: a cell without an <img> has
\* nothing to download
Downloads(row) ==
    {<<h, a>> : h \in (IF row.homeImg THEN BOOLEAN ELSE {FALSE}),
                a \in (IF row.awayImg THEN BOOLEAN ELSE {FALSE})}

\* The page being parsed: the team's tournament page
ParsedFiksId == TEAM_CONFIG["a"].fiksId

\* One pass of the loop at line 309 over the row `row`
StepRow(row, dl, next) ==
    /\ p_rows' = Append(p_rows, row)
    /\ p_dls' = Append(p_dls, dl)
    /\ p_st' = next
    /\ p_src' = IF Len(next.matches) > Len(p_st.matches)
                THEN Append(p_src, Len(p_rows) + 1) ELSE p_src
    /\ p_pc' = IF next.raised THEN "raised" ELSE "rows"
    /\ UNCHANGED <<clock, mainVars, icsVars, fetchVars>>

\* The next <tr> of a table of up to MaxRows rows
ReadRow ==
    /\ p_pc = "rows"
    /\ Len(p_rows) < MaxRows
    /\ \E row \in PageRows : \E dl \in Downloads(row) :
          StepRow(row, dl, ProcessRow(p_st, row, ParsedFiksId, TitleDiv, dl))

\* The next <tr> of a short table
ReadWideRow ==
    /\ p_pc = "rows"
    /\ Len(p_rows) < MaxWideRows
    /\ \E row \in WideRows : \E dl \in Downloads(row) :
          StepRow(row, dl, ProcessRow(p_st, row, ParsedFiksId, TitleDiv, dl))

\* The table has no more rows: return page_title, matches (line 439)
ParseReturn ==
    /\ p_pc = "rows"
    /\ p_pc' = "returned"
    /\ UNCHANGED <<clock, mainVars, icsVars, p_rows, p_dls, p_st, p_src, fetchVars>>

NextParse == ReadRow \/ ParseReturn

SpecParse == Init /\ [][NextParse]_vars

NextRow == ReadWideRow \/ ParseReturn

SpecRow == Init /\ [][NextRow]_vars


(***************************************************************************)
(* build_ics, one match at a time, invoked twice with the same arguments   *)
(***************************************************************************)
\* Records as main hands them to build_ics, and two that lack a kickoff
IcsRecord(kickoff, status, goals, url) ==
    [matchId |-> <<"8975343">>, kickoff |-> kickoff, homeTeam |-> Fagerborg,
     awayTeam |-> Ready, homeLogoUrl |-> PLACEHOLDER, awayLogoUrl |-> PLACEHOLDER,
     venue |-> <<"Voldsl", "oe", "kka">>, status |-> status, homeGoals |-> goals,
     awayGoals |-> goals, tournament |-> <<"4. divisjon">>, round |-> <<>>,
     matchUrl |-> url]

IcsRecords ==
    { IcsRecord(to_utc_iso(2026, 4, 12, 18, 30), "FINISHED", Some(2), FullUrl(Link1)),
      IcsRecord(to_utc_iso(2026, 10, 25, 23, 30), "POSTPONED", None, <<>>),
      IcsRecord(<<>>, "SCHEDULED", None, <<>>),
      IcsRecord(<<>>, "CANCELLED", None, FullUrl(Link1)) }

IcsCalls ==
    {[name |-> CalendarName(k), key |-> k, matches |-> ms] :
        k \in {"a", "all"}, ms \in SeqsUpTo(IcsRecords, MaxIcsMatches)}

InitIcs ==
    /\ clock = StartInstant
    /\ InitMain
    /\ InitParse
    /\ i_in \in IcsCalls
    /\ i_idx = 0
    /\ i_pc = "idle"
    /\ i_now = 0
    /\ i_lines = <<>>
    /\ i_done = <<>>
    /\ InitFetchIdle

\* Lines 509-520: now_utc is read and the prologue is written
IcsBegin ==
    /\ i_pc = "idle"
    /\ Len(i_done) < 2
    /\ i_now' = clock
    /\ i_lines' = IcsPrologue(i_in.name)
    /\ i_idx' = 0
    /\ i_pc' = "events"
    /\ UNCHANGED <<clock, mainVars, parseVars, i_in, i_done, fetchVars>>

\* One pass of the loop at line 522; ics_dt reads the clock as it stands
IcsEvent ==
    /\ i_pc = "events"
    /\ i_idx < Len(i_in.matches)
    /\ i_lines' = i_lines \o EventLines(i_in.matches[i_idx + 1], i_in.key,
                                        FormatStamp(i_now), clock)
    /\ i_idx' = i_idx + 1
    /\ UNCHANGED <<clock, mainVars, parseVars, i_in, i_pc, i_now, i_done, fetchVars>>

\* Lines 582-583: the epilogue and the joined text are returned
IcsReturn ==
    /\ i_pc = "events"
    /\ i_idx = Len(i_in.matches)
    /\ i_done' = Append(i_done, [now_utc |-> i_now,
                                 text    |-> JoinCrLf(Append(i_lines, <<"END:VCALENDAR">>))])
    /\ i_pc' = "idle"
    /\ UNCHANGED <<clock, mainVars, parseVars, i_in, i_idx, i_now, i_lines, fetchVars>>

NextIcs == Tick \/ IcsBegin \/ IcsEvent \/ IcsReturn

SpecIcs == InitIcs /\ [][NextIcs]_vars

(***************************************************************************)
(* fetch_team, one candidate page at a time                                *)
(***************************************************************************)
InitFetch ==
    /\ clock = StartInstant
    /\ InitMain
    /\ InitParse
    /\ InitIcsIdle
    /\ f_key \in {"a", "b"}
    /\ f_in \in PageOutcomes \X PageOutcomes
    /\ f_i = 0
    /\ f_pc = "idle"
    /\ f_log = <<>>
    /\ f_title = <<>>
    /\ f_matches = <<>>
    /\ f_ret = NoData

\* Lines 443-447
FetchBegin ==
    /\ f_pc = "idle"
    /\ f_title' = DefaultTitle
    /\ f_matches' = <<>>
    /\ f_pc' = "loop"
    /\ UNCHANGED <<clock, mainVars, parseVars, icsVars, f_key, f_in, f_i, f_log, f_ret>>

\* A loop that never takes the break of line 456
LoopGoesOn(r) == FALSE

\* Lines 454-456: the page gave matches and the loop is left
LeavesLoop(r) == ~r.raised /\ r.matches # <<>>

\* Lines 451-458, given the outcome r of parse_matches_from_page(url, fiks_id)
AfterParse(url, r) ==
    /\ f_log' = Append(f_log, url)
    /\ f_i' = f_i + 1
    /\ f_title' = IF ~r.raised /\ r.title # <<>> THEN r.title ELSE f_title
    /\ f_matches' = IF ~r.raised /\ r.matches # <<>> THEN r.matches ELSE f_matches
    /\ f_pc' = IF LeavesLoop(r) THEN "sort" ELSE "loop"
    /\ UNCHANGED <<clock, mainVars, parseVars, icsVars, f_key, f_in, f_ret>>

\* One pass of the loop of line 449: the next candidate page is fetched and parsed
TryPage ==
    /\ f_pc = "loop"
    /\ f_i < Len(candidate_pages(TEAM_CONFIG[f_key].fiksId))
    /\ AfterParse(candidate_pages(TEAM_CONFIG[f_key].fiksId)[f_i + 1],
                  parse_matches_from_page(f_in[f_i + 1], TEAM_CONFIG[f_key].fiksId))

\* Lines 460-477: after the break or the last candidate, sort and return
FetchReturn ==
    /\ \/ f_pc = "sort"
       \/ f_pc = "loop" /\ f_i = Len(candidate_pages(TEAM_CONFIG[f_key].fiksId))
    /\ f_matches' = SortedMatches(f_matches)
    /\ f_ret' = TeamData(TEAM_CONFIG[f_key], TournamentBadge(f_title), SortedMatches(f_matches))
    /\ f_pc' = "returned"
    /\ UNCHANGED <<clock, mainVars, parseVars, icsVars, f_key, f_in, f_i, f_log, f_title>>

NextFetch == FetchBegin \/ TryPage \/ FetchReturn

SpecFetch == InitFetch /\ [][NextFetch]_vars

(***************************************************************************)
(* Properties                                                              *)
(***************************************************************************)
\* The records a page parse hands to its caller: none when it raised
Returned == IF p_pc = "raised" THEN <<>> ELSE p_st.matches

\* The row a record of the current page parse was built from
RowOf(k) == p_rows[p_src[k]]

Parsed(m) == m.homeGoals # None /\ m.awayGoals # None

\* C1: a run that starts with a persisted dataset holding matches for a
\* tracked team and whose fresh parse yields no match for that team leaves the
\* four persisted files exactly as they were.
C1_GuardKeepsPrevious ==
    (/\ pc = "done"
     /\ prev["json"].state = "written"
     /\ \E k \in {"a", "b"} :
           /\ prev["json"].content[1][k].matches # <<>>
           /\ out[k].matches = <<>>)
    => disk = prev

\* C2: every record of a page parse is FINISHED exactly when both goal fields
\* are set, and never has one goal field without the other.
C2_FinishedIffGoals ==
    \A k \in 1..Len(p_st.matches) :
        /\ (p_st.matches[k].status = "FINISHED") <=> Parsed(p_st.matches[k])
        /\ (p_st.matches[k].homeGoals = None) <=> (p_st.matches[k].awayGoals = None)

C2_Witness ==
    /\ p_pc = "returned"
    /\ Len(p_rows) = 1
    /\ p_rows[1].res = Cell(<<"3", " ", "-", " ", "0", " ", "Utsatt">>)
    /\ Len(p_st.matches) = 1
    /\ p_st.matches[1].status = "FINISHED"
    /\ p_st.matches[1].homeGoals = Some(3)
    /\ p_st.matches[1].awayGoals = Some(0)

\* A cell of the row holds a word for which Has(_) is true
CellHas(c, Has(_)) == c # NoCell /\ \E i \in 1..Len(c[1]) : Has(c[1][i])

RowHas(row, Has(_)) == CellHas(row.res, Has) \/ CellHas(row.venue, Has)

\* C3: the status of a record is CANCELLED when the text of its row holds a
\* cancellation keyword, else POSTPONED when it holds a postponement keyword,
\* else FINISHED when both goal counts were parsed, else SCHEDULED.
C3_KeywordsFirst ==
    \A k \in 1..Len(p_st.matches) :
        p_st.matches[k].status =
            IF RowHas(RowOf(k), HasAvly) THEN "CANCELLED"
            ELSE IF RowHas(RowOf(k), HasUtsatt) THEN "POSTPONED"
            ELSE IF Parsed(p_st.matches[k]) THEN "FINISHED"
            ELSE "SCHEDULED"

\* C4: no two records of a page parse carry the same matchId.
C4_UniqueMatchId ==
    \A j, k \in 1..Len(p_st.matches) :
        j # k => p_st.matches[j].matchId # p_st.matches[k].matchId

\* What the row at index i builds, with the downloads it had
BuiltAt(i) == BuildRow(p_rows[i], ParsedFiksId, TitleDiv, p_dls[i])

\* C5: no two records of a page parse share (matchId, kickoff, homeTeam,
\* awayTeam); every row that builds a record has exactly one record with its
\* key, and that record is the one built from the first row with the key.
C5_DedupKeepsFirst ==
    /\ \A j, k \in 1..Len(p_st.matches) :
          j # k => KeyOf(p_st.matches[j]) # KeyOf(p_st.matches[k])
    /\ \A k \in 1..Len(p_st.matches) :
          /\ BuiltAt(p_src[k]).kind = "match"
          /\ p_st.matches[k] = BuiltAt(p_src[k]).m
          /\ \A i \in 1..(p_src[k] - 1) :
                BuiltAt(i).kind = "match" => KeyOf(BuiltAt(i).m) # KeyOf(p_st.matches[k])
    /\ \A i \in 1..Len(p_rows) :
          BuiltAt(i).kind = "match"
          => \E k \in 1..Len(p_st.matches) : KeyOf(p_st.matches[k]) = KeyOf(BuiltAt(i).m)

C5_Witness ==
    /\ p_pc = "returned"
    /\ Len(p_rows) = 3
    /\ p_rows[1] = p_rows[3]
    /\ p_rows[2] # p_rows[1]
    /\ p_rows[1].venue = Voldslokka
    /\ p_rows[2].venue = NoCell
    /\ Len(p_st.matches) = 1
    /\ p_src = <<1>>
    /\ p_st.matches[1].venue = Voldslokka[1]

\* The row at index i has a date cell of the form dd.mm.yyyy and non-empty
\* team cells
WellFormed(row) ==
    /\ row.date # NoCell /\ DateMatches(normalize_space(row.date[1]))
    /\ row.home # NoCell /\ normalize_space(row.home[1]) # <<>>
    /\ row.away # NoCell /\ normalize_space(row.away[1]) # <<>>

SameFixture(r1, r2) ==
    /\ r1.date = r2.date /\ r1.time = r2.time
    /\ r1.home = r2.home /\ r1.away = r2.away /\ r1.href = r2.href

\* C6: when the page parse is over, every well-formed row that repeats no
\* earlier row has exactly one record among those returned, with the teams in
\* the order of the row.
C6_EveryRowEmitted ==
    p_pc \in {"returned", "raised"} =>
        \A i \in 1..Len(p_rows) :
            (WellFormed(p_rows[i]) /\ \A j \in 1..(i - 1) : ~SameFixture(p_rows[j], p_rows[i]))
            => /\ Cardinality({k \in 1..Len(Returned) : p_src[k] = i}) = 1
               /\ \A k \in 1..Len(Returned) :
                     p_src[k] = i =>
                        /\ Returned[k].homeTeam = normalize_space(p_rows[i].home[1])
                        /\ Returned[k].awayTeam = normalize_space(p_rows[i].away[1])


Ascending(ms) ==
    \A i \in 1..(Len(ms) - 1) : FromIso(ms[i].kickoff) <= FromIso(ms[i + 1].kickoff)

\* C7: the matches of each dataset fetch_team returned, and the combined
\* sequence main builds from both, are in ascending order of kickoff.
C7_SortedByKickoff ==
    /\ Ascending(out.a.matches)
    /\ Ascending(out.b.matches)
    /\ Ascending(all_matches)

C7_Witness ==
    /\ pc = "done"
    /\ ~Ascending(fetched.a)
    /\ Len(out.a.matches) = 2
    /\ Len(out.b.matches) = 2
    /\ Len(all_matches) = 4
    /\ FromIso(all_matches[1].kickoff) < FromIso(all_matches[4].kickoff)

\* C8: no failure makes the run end abnormally.
C8_NeverCrashes == pc # "crashed"

\* C9: two invocations of build_ics with the same matches, team_key and
\* calendar name whose invocation instants are equal return the same text.
C9_SameInstantSameText ==
    \A j, k \in 1..Len(i_done) :
        i_done[j].now_utc = i_done[k].now_utc => i_done[j].text = i_done[k].text

\* The readings of a text as a date dd.mm.yyyy and as a time HH:MM, HH.MM,
\* H:MM or H.MM within the ranges of the calendar and of the clock
DateReadings(s) ==
    IF Len(s) # 10 \/ s[3] # "." \/ s[6] # "." THEN {}
    ELSE {d \in 1..31 : SubSeq(s, 1, 2) = Pad(d, 2)}
         \X {mo \in 1..12 : SubSeq(s, 4, 5) = Pad(mo, 2)}
         \X {y \in 2024..2026 : SubSeq(s, 7, 10) = Pad(y, 4)}

TimeReadings(s) ==
    IF Len(s) \notin {4, 5} \/ s[Len(s) - 2] \notin {":", "."} THEN {}
    ELSE {h \in 0..23 : \/ SubSeq(s, 1, Len(s) - 3) = Pad(h, 2)
                         \/ (h < 10 /\ SubSeq(s, 1, Len(s) - 3) = Pad(h, 1))}
         \X {mi \in 0..59 : SubSeq(s, Len(s) - 1, Len(s)) = Pad(mi, 2)}

CellText(c) == IF c = NoCell THEN <<>> ELSE normalize_space(c[1])

\* The kickoff C10 states for the date dmy and the time readings hms
KickoffFor(dmy, hms) ==
    IF hms = {} \/ hms = {<<2, 59>>}
    THEN to_utc_iso(dmy[3], dmy[2], dmy[1], 0, 0)
    ELSE to_utc_iso(dmy[3], dmy[2], dmy[1], (CHOOSE hm \in hms : TRUE)[1],
                    (CHOOSE hm \in hms : TRUE)[2])

\* C10: the kickoff of a record is local midnight of the row's date when the
\* time text is "02.59" or "02:59", is absent or reads as no time, and is the
\* time as read otherwise.
C10_PlaceholderIsMidnight ==
    \A k \in 1..Len(p_st.matches) :
        \A dmy \in DateReadings(CellText(RowOf(k).date)) :
            p_st.matches[k].kickoff = KickoffFor(dmy, TimeReadings(CellText(RowOf(k).time)))

C10_Witness ==
    /\ p_pc = "returned"
    /\ Len(p_rows) = 1
    /\ p_rows[1].date = Cell(Apr12)
    /\ p_rows[1].time = Cell(TimeText(2, 59, "."))
    /\ Len(p_st.matches) = 1
    /\ p_st.matches[1].kickoff = IsoText(<<2026, 4, 11>>, 22 * 3600)


\* What the i-th candidate page gives when it is fetched and parsed
Got(i) == parse_matches_from_page(f_in[i], TEAM_CONFIG[f_key].fiksId)

Yields(i) == ~Got(i).raised /\ Got(i).matches # <<>>

SameRecords(s, u) ==
    /\ Len(s) = Len(u)
    /\ {s[i] : i \in 1..Len(s)} = {u[i] : i \in 1..Len(u)}

\* C11: the tournament page is fetched first and the team page second; a page
\* is fetched only when no page before it gave a match, and is fetched whenever
\* every page before it raised or gave none; the dataset returned holds exactly
\* the records of the first page that gave a match, and none when no page did.
C11_FirstPageWithMatches ==
    /\ Len(f_log) <= 2
    /\ Len(f_log) >= 1 =>
          f_log[1] = BASE \o <<"/fotballdata/", "turnering", "/hjem/?fiksId=">>
                          \o TEAM_CONFIG[f_key].fiksId
    /\ Len(f_log) >= 2 =>
          f_log[2] = BASE \o <<"/fotballdata/", "lag", "/hjem/?fiksId=">>
                          \o TEAM_CONFIG[f_key].fiksId
    /\ \A j \in 1..Len(f_log) : \A i \in 1..(j - 1) : ~Yields(i)
    /\ f_pc = "returned" =>
          /\ \A j \in 1..2 : (\A i \in 1..(j - 1) : ~Yields(i)) => j <= Len(f_log)
          /\ IF \E i \in 1..2 : Yields(i)
             THEN /\ Yields(Len(f_log))
                  /\ SameRecords(f_ret.matches, Got(Len(f_log)).matches)
             ELSE f_ret.matches = <<>>

C11_Witness ==
    /\ f_pc = "returned"
    /\ f_in[1].fetched
    /\ Got(1).raised
    /\ Yields(2)
    /\ Len(f_log) = 2
    /\ Len(f_ret.matches) = 2
    /\ f_ret.matches # Got(2).matches

\* The loop and fetch_team as a whole agree
FetchAgrees == f_pc = "returned" => f_ret = fetch_team(TEAM_CONFIG[f_key], f_in)

=============================================================================
